---- MODULE Spec2Model ----
(***************************************************************************)
(* Model of app.py, the Flask backend of dashboard-embed-sso: the          *)
(* email + password login, the cookie session, the login_required gate     *)
(* and the three upstream calls of mint_databricks_token.                  *)
(*                                                                         *)
(* Strings the code inspects character by character (strip, lower,         *)
(* rstrip, quote) are sequences of one-character strings.  The long        *)
(* literals of the source are abbreviated:                                 *)
(*   'youssef.mrini@databricks.com'  is  <<"y","@","d">>                   *)
(*   'hanane.oudnia@databricks.com'  is  <<"h","@","d">>                   *)
(*   'realmadrid10.!'                is  <<"r","1">>                       *)
(* Flask's session is the default signed-cookie session (app.secret_key,   *)
(* no server-side session extension): the session of a request is the      *)
(* content of the cookie the request presents, and the cookie the          *)
(* response sets is the session the handler left behind.                   *)
(***************************************************************************)
EXTENDS Integers, Sequences, FiniteSets, TLC

(* ---------------- bounds ---------------- *)

\* longest e-mail string typed at login under SpecLogin
MaxLen == 4

\* embed-config requests that reach the upstream under SpecMint
MaxRequests == 3

(* ---------------- strings ---------------- *)

Whitespace == {" "}

\* str.lower() on one character
LowerChar(ch) ==
  CASE ch = "Y" -> "y"
    [] ch = "H" -> "h"
    [] ch = "D" -> "d"
    [] ch = "R" -> "r"
    [] OTHER -> ch

\* str.lower()
lower(s) == [i \in DOMAIN s |-> LowerChar(s[i])]

RECURSIVE lstrip(_)
lstrip(s) == IF s # <<>> /\ Head(s) \in Whitespace THEN lstrip(Tail(s)) ELSE s

RECURSIVE rstrip(_)
rstrip(s) ==
  IF s # <<>> /\ s[Len(s)] \in Whitespace
    THEN rstrip(SubSeq(s, 1, Len(s) - 1)) ELSE s

\* str.strip()
strip(s) == rstrip(lstrip(s))

\* str.rstrip('/')
RECURSIVE rstrip_slash(_)
rstrip_slash(s) ==
  IF s # <<>> /\ s[Len(s)] = "/"
    THEN rstrip_slash(SubSeq(s, 1, Len(s) - 1)) ELSE s

\* urllib.parse.quote on one character: letters, digits and "_.-~/" are safe
QuoteChar(ch) ==
  CASE ch = "@" -> "%40"
    [] ch = " " -> "%20"
    [] OTHER -> ch

\* urllib.parse.quote(s)
quote(s) == [i \in DOMAIN s |-> QuoteChar(s[i])]

\* Python's None, where a string is expected
None == <<"None">>

\* `x or ''`
OrEmpty(x) == IF x = None THEN <<>> ELSE x

(* ---------------- the credential directory ---------------- *)

EmailY == <<"y", "@", "d">>
EmailH == <<"h", "@", "d">>

ALLOWED_USERS ==
  (EmailY :> [id |-> "user_youssef", name |-> "Youssef Mrini", email |-> EmailY,
              department |-> "Viewer", password |-> <<"r", "1">>])
  @@
  (EmailH :> [id |-> "user_hanane", name |-> "Hanane Oudnia", email |-> EmailH,
              department |-> "Viewer", password |-> <<"r", "1">>])

\* Python's None, where a user record is expected
NoUser == [none |-> TRUE]

\* ALLOWED_USERS.get(key): the record, or None
users_get(key) == IF key \in DOMAIN ALLOWED_USERS THEN ALLOWED_USERS[key] ELSE NoUser

\* {k: v for k, v in user.items() if k != 'password'}
_user_for_response(user) == [k \in DOMAIN user \ {"password"} |-> user[k]]

(* ---------------- state ---------------- *)

Clients == {"c1", "c2"}

VARIABLES
  env,    \* os.environ, fixed when the process starts
  jar,    \* jar[c]: the session cookie client c holds (the session of its next request)
  hist,   \* hist[c]: the last login or logout that completed on c's session
  req,    \* req[c]: the embed-config request of c that waits for the upstream
  resp,   \* the response delivered last, with the request it answers
  form,   \* the credentials typed in the connection UI and not yet submitted
  meter   \* the upstream's count of the calls it received, when it keeps one

vars == <<env, jar, hist, req, resp, form, meter>>

(* ---------------- configuration ---------------- *)

\* every variable set; the workspace URL by its fallback name, with a trailing slash
FullEnv ==
  [DATABRICKS_WORKSPACE_URL |-> <<"w", "/">>, OAUTH_CLIENT_ID |-> <<"i">>,
   OAUTH_SECRET |-> <<"s">>, DASHBOARD_ID |-> <<"b">>, WORKSPACE_ID |-> <<"k">>,
   DATABRICKS_WAREHOUSE_ID |-> <<"h">>]

\* the names mint_databricks_token requires, each with its fallback name
Required ==
  [INSTANCE_URL |-> "DATABRICKS_WORKSPACE_URL", OAUTH_CLIENT_ID |-> "DATABRICKS_CLIENT_ID",
   OAUTH_SECRET |-> "DATABRICKS_CLIENT_SECRET", DASHBOARD_ID |-> "DATABRICKS_DASHBOARD_ID"]

\* FullEnv with one required value missing: unset, set to '' or set to '/'
BrokenEnv(key, how) ==
  LET rest == [k \in DOMAIN FullEnv \ {key, Required[key]} |-> FullEnv[k]]
  IN CASE how = "unset" -> rest
       [] how = "empty" -> (key :> <<>>) @@ rest
       [] OTHER -> (Required[key] :> <<"/">>) @@ rest

EnvChoices ==
  {FullEnv} \cup {BrokenEnv(key, how) : key \in DOMAIN Required, how \in {"unset", "empty", "slash"}}

\* os.environ.get(key) is set and not ''
EnvTruthy(key) == key \in DOMAIN env /\ env[key] # <<>>

\* _env(key, fallback_key) with the default ''
_env(key, fallback_key) ==
  IF EnvTruthy(key) THEN rstrip_slash(env[key])
  ELSE IF EnvTruthy(fallback_key) THEN rstrip_slash(env[fallback_key])
  ELSE <<>>

(* ---------------- session and auth handlers ---------------- *)

\* a session without keys: no cookie, or the cookie session.clear() leaves
EmptySession == [k \in {} |-> None]

HasUser(sess) == "user_id" \in DOMAIN sess

\* session.get(key)
session_get(sess, key) == IF key \in DOMAIN sess THEN sess[key] ELSE None

\* what a handler returns: the response, and the session it leaves behind
Outcome(status, body, sess, modified) ==
  [status |-> status, body |-> body, session |-> sess, modified |-> modified]

\* login_required without its check: the wrapped handler always runs
login_required_open(sess, f) == f

\* the gate: f is the outcome of the wrapped handler
login_required(sess, f) ==
  IF ~HasUser(sess)
    THEN Outcome(401, [error |-> "Authentication required"], sess, FALSE)
    ELSE f

\* login that looks the e-mail up without lower-casing it
login_case_sensitive(sess, data) ==
  LET email == strip(OrEmpty(data.email))
      password == strip(OrEmpty(data.password))
      user == users_get(email)
  IN IF user = NoUser \/ user.password # password
       THEN Outcome(401, [error |-> "Invalid email or password"], sess, FALSE)
       ELSE Outcome(200, [success |-> TRUE, user |-> _user_for_response(user)],
                    [k \in DOMAIN sess \cup {"user_id", "username"} |->
                       IF k = "user_id" THEN user.id
                       ELSE IF k = "username" THEN email ELSE sess[k]],
                    TRUE)

\* login that tells an unknown e-mail from a wrong password
login_enumerating(sess, data) ==
  LET email == lower(strip(OrEmpty(data.email)))
      password == strip(OrEmpty(data.password))
      user == users_get(email)
  IN IF user = NoUser
       THEN Outcome(401, [error |-> "Unknown email"], sess, FALSE)
     ELSE IF user.password # password
       THEN Outcome(401, [error |-> "Invalid email or password"], sess, FALSE)
       ELSE Outcome(200, [success |-> TRUE, user |-> _user_for_response(user)],
                    [k \in DOMAIN sess \cup {"user_id", "username"} |->
                       IF k = "user_id" THEN user.id
                       ELSE IF k = "username" THEN email ELSE sess[k]],
                    TRUE)

\* login that stores the e-mail as typed, trimmed but not lower-cased
login_stores_typed(sess, data) ==
  LET email == lower(strip(OrEmpty(data.email)))
      password == strip(OrEmpty(data.password))
      user == users_get(email)
  IN IF user = NoUser \/ user.password # password
       THEN Outcome(401, [error |-> "Invalid email or password"], sess, FALSE)
       ELSE Outcome(200, [success |-> TRUE, user |-> _user_for_response(user)],
                    [k \in DOMAIN sess \cup {"user_id", "username"} |->
                       IF k = "user_id" THEN user.id
                       ELSE IF k = "username" THEN strip(OrEmpty(data.email)) ELSE sess[k]],
                    TRUE)

\* login that drops the session when the credentials are wrong
login_clears_on_failure(sess, data) ==
  LET email == lower(strip(OrEmpty(data.email)))
      password == strip(OrEmpty(data.password))
      user == users_get(email)
  IN IF user = NoUser \/ user.password # password
       THEN Outcome(401, [error |-> "Invalid email or password"], EmptySession, TRUE)
       ELSE Outcome(200, [success |-> TRUE, user |-> _user_for_response(user)],
                    [k \in DOMAIN sess \cup {"user_id", "username"} |->
                       IF k = "user_id" THEN user.id
                       ELSE IF k = "username" THEN email ELSE sess[k]],
                    TRUE)

\* POST /api/auth/login
login(sess, data) ==
  LET email == lower(strip(OrEmpty(data.email)))
      password == strip(OrEmpty(data.password))
      user == users_get(email)
  IN IF user = NoUser \/ user.password # password
       THEN Outcome(401, [error |-> "Invalid email or password"], sess, FALSE)
       ELSE Outcome(200, [success |-> TRUE, user |-> _user_for_response(user)],
                    [k \in DOMAIN sess \cup {"user_id", "username"} |->
                       IF k = "user_id" THEN user.id
                       ELSE IF k = "username" THEN email ELSE sess[k]],
                    TRUE)

\* logout behind the gate: an error when there is no session
logout_requires_session(sess) ==
  IF ~HasUser(sess)
    THEN Outcome(401, [error |-> "Authentication required"], sess, FALSE)
    ELSE Outcome(200, [success |-> TRUE], EmptySession, TRUE)

\* logout that answers success and leaves the session as it is
logout_keeps_session(sess) == Outcome(200, [success |-> TRUE], sess, FALSE)

\* POST /api/auth/logout
logout(sess) == Outcome(200, [success |-> TRUE], EmptySession, TRUE)

\* the body of get_current_user, below the gate
current_user_body(sess) ==
  LET user == users_get(session_get(sess, "username"))
  IN IF user = NoUser
       THEN Outcome(401, [error |-> "User not found"], EmptySession, TRUE)
       ELSE Outcome(200, _user_for_response(user), sess, FALSE)

\* current-user over a server-side store that forgets a session at logout
get_current_user_revoking(sess) ==
  IF \E c \in Clients : hist[c].op = "logout" /\ hist[c].old = sess
    THEN Outcome(401, [error |-> "Authentication required"], sess, FALSE)
    ELSE login_required(sess, current_user_body(sess))

\* GET /api/auth/current-user
get_current_user(sess) == login_required(sess, current_user_body(sess))

\* Flask's save_session: the cookie the client holds after the response
save_session(cookie, out) == IF out.modified THEN out.session ELSE cookie

(* ---------------- token minting ---------------- *)

workspace_url == _env("INSTANCE_URL", "DATABRICKS_WORKSPACE_URL")
client_id == _env("OAUTH_CLIENT_ID", "DATABRICKS_CLIENT_ID")
client_secret == _env("OAUTH_SECRET", "DATABRICKS_CLIENT_SECRET")
dashboard_id == _env("DASHBOARD_ID", "DATABRICKS_DASHBOARD_ID")

\* any(...) in the place of all(...)
config_present_any ==
  workspace_url # <<>> \/ client_id # <<>> \/ client_secret # <<>> \/ dashboard_id # <<>>

\* all([workspace_url, client_id, client_secret, dashboard_id])
config_present ==
  workspace_url # <<>> /\ client_id # <<>> /\ client_secret # <<>> /\ dashboard_id # <<>>

MissingConfig ==
  <<"Missing config. Set INSTANCE_URL, OAUTH_CLIENT_ID, OAUTH_SECRET, DASHBOARD_ID, WORKSPACE_ID.">>

\* base64.b64encode(f'{client_id}:{client_secret}')
basic_auth == <<"b64", client_id, ":", client_secret>>

\* step 1, requests.post: the client-credentials grant
oidc_call ==
  [step |-> "oidc", url |-> <<workspace_url, "/oidc/v1/token">>,
   auth |-> <<"Basic", basic_auth>>,
   data |-> [grant_type |-> "client_credentials", scope |-> "all-apis"]]

\* (user_data.get('email') or '').strip()
user_email(user_data) ==
  strip(OrEmpty(IF "email" \in DOMAIN user_data THEN user_data.email ELSE None))

\* step 2, requests.get: the tokeninfo URL with its two query parameters
tokeninfo_call(user_data, oidc_token) ==
  [step |-> "tokeninfo",
   url |-> <<workspace_url, "/api/2.0/lakeview/dashboards/", dashboard_id, "/published/tokeninfo">>,
   external_viewer_id |-> quote(user_email(user_data)),
   external_value |-> quote(user_email(user_data)),
   auth |-> <<"Bearer", oidc_token>>]

\* json.dumps of authorization_details, None when tokeninfo has none
json_dumps(x) == IF x = "None" THEN <<"null">> ELSE <<"'", x, "'">>

\* params: token_info without authorization_details, plus the two fields set
scoped_params(token_info) ==
  LET auth_details == IF "authorization_details" \in DOMAIN token_info
                        THEN token_info.authorization_details ELSE "None"
  IN [k \in DOMAIN token_info \cup {"grant_type", "authorization_details"} |->
        IF k = "grant_type" THEN <<"client_credentials">>
        ELSE IF k = "authorization_details" THEN json_dumps(auth_details)
        ELSE <<token_info[k]>>]

\* step 3, requests.post: the scoped exchange
scoped_call(token_info) ==
  [step |-> "scoped", url |-> <<workspace_url, "/oidc/v1/token">>,
   auth |-> <<"Basic", basic_auth>>, data |-> scoped_params(token_info)]

(* what the upstream may answer *)

NonOk == {204, 403}
ConnectionError == [raised |-> "ConnectionError"]
NotJson == {[status |-> 200, text |-> <<"<html>">>]}
Refusals == {[status |-> st, text |-> <<"denied">>] : st \in NonOk}
OidcReplies ==
  {ConnectionError} \cup Refusals \cup NotJson \cup
  {[status |-> 200, json |-> j] : j \in {[access_token |-> "svc"], [token_type |-> "Bearer"]}}
TokeninfoReplies ==
  {ConnectionError} \cup Refusals \cup NotJson \cup
  {[status |-> 200, json |-> [authorization_details |-> "ad", custom_claim |-> "cc"]]}
ScopedReplies ==
  {ConnectionError} \cup Refusals \cup NotJson \cup
  {[status |-> 200, json |-> [access_token |-> "tokA", expires_in |-> 600]],
   [status |-> 200, json |-> [access_token |-> "tokB"]],
   [status |-> 200, json |-> [expires_in |-> 600]]}

NoError == <<>>

\* the exception a reply raises in mint_databricks_token, as str(e); NoError if none.
\* label is the step's message, key the field read from the JSON body ("" if none)
reply_error(label, key, r) ==
  IF "raised" \in DOMAIN r THEN <<r.raised>>
  ELSE IF r.status # 200 THEN <<label, r.status, " - ", r.text>>
  ELSE IF "json" \notin DOMAIN r THEN <<"Expecting value">>
  ELSE IF key # "" /\ key \notin DOMAIN r.json THEN <<"'", key, "'">>
  ELSE NoError

oidc_error(r) == reply_error("OIDC token failed: ", "access_token", r)
tokeninfo_error(r) == reply_error("Token info failed: ", "", r)
\* the scoped exchange raising with the message of step 1
scoped_error_mislabeled(r) == reply_error("OIDC token failed: ", "access_token", r)

scoped_error(r) == reply_error("Scoped token failed: ", "access_token", r)

\* the dict mint_databricks_token returns (created_at is not read by the caller)
minted_token(data) ==
  [access_token |-> data.access_token, token_type |-> "Bearer",
   expires_in |-> IF "expires_in" \in DOMAIN data THEN data.expires_in ELSE 3600]

(* ---------------- embed-config ---------------- *)

\* get_embed_config taking the user from the query string
embed_user_from_args(sess, request_args) == users_get(request_args)

\* get_embed_config taking the user from one shared slot instead of the request's session
embed_user_shared(sess, request_args) == users_get(session_get(jar["c1"], "username"))

\* the user get_embed_config hands to mint_databricks_token; request_args is
\* what the caller put in the query string, which the handler never reads
embed_user(sess, request_args) == users_get(session_get(sess, "username"))

\* a failure answered with the fields of a success left in the body
embed_failure_partial(sess, msg) ==
  Outcome(500, [error |-> msg, workspace_url |-> workspace_url, dashboard_id |-> dashboard_id],
          sess, FALSE)

\* a failure that also clears the session
embed_failure_clears(sess, msg) == Outcome(500, [error |-> msg], EmptySession, TRUE)

\* except Exception as e: ... 500
embed_failure(sess, msg) == Outcome(500, [error |-> msg], sess, FALSE)

\* the 200 response of get_embed_config
embed_success(sess, user, token_data) ==
  Outcome(200,
          [workspace_url |-> workspace_url,
           workspace_id |-> _env("WORKSPACE_ID", "DATABRICKS_WORKSPACE_ID"),
           dashboard_id |-> dashboard_id,
           warehouse_id |-> IF "DATABRICKS_WAREHOUSE_ID" \in DOMAIN env
                              THEN env["DATABRICKS_WAREHOUSE_ID"] ELSE None,
           embed_token |-> token_data.access_token,
           token_expires_in |-> token_data.expires_in,
           user_context |-> _user_for_response(user)],
          sess, FALSE)

\* mint_databricks_token has issued its first call and waits
Pending == [pending |-> TRUE]

\* get_embed_config answering 'User not found' without session.clear()
embed_body_keeps_session(sess, request_args) ==
  IF embed_user(sess, request_args) = NoUser
    THEN Outcome(401, [error |-> "User not found"], sess, FALSE)
  ELSE IF ~config_present THEN embed_failure(sess, MissingConfig)
  ELSE Pending

\* the body of get_embed_config, below the gate, up to the first upstream call
embed_body(sess, request_args) ==
  IF embed_user(sess, request_args) = NoUser
    THEN Outcome(401, [error |-> "User not found"], EmptySession, TRUE)
  ELSE IF ~config_present THEN embed_failure(sess, MissingConfig)
  ELSE Pending

\* GET /api/dashboard/embed-config, up to the first upstream call
get_embed_config(sess, request_args) == login_required(sess, embed_body(sess, request_args))

(* ---------------- requests ---------------- *)

Idle == [pc |-> "idle"]

\* what clients type at login
LoginEmails == {EmailY, <<" ", "Y", "@", "D">>, EmailH, <<"x", "@", "d">>}
LoginInputs ==
  {[email |-> e, password |-> <<"r", "1">>] : e \in LoginEmails}
  \cup {[email |-> EmailY, password |-> <<"R", "1">>]}

\* what the login form may hold under SpecLogin: every string of at most
\* MaxLen characters as e-mail, or no e-mail at all
Chars == {"y", "Y", "h", "@", "d", " "}
RECURSIVE Strings(_)
Strings(n) ==
  IF n = 0 THEN {<<>>}
  ELSE Strings(n - 1) \cup {Append(s, ch) : s \in {t \in Strings(n - 1) : Len(t) = n - 1}, ch \in Chars}
FormPasswords == {<<"r", "1">>, <<" ", "r", "1", " ">>, <<"R", "1">>, None}
FormInputs ==
  {[email |-> e, password |-> p] : e \in Strings(MaxLen) \cup {None}, p \in FormPasswords}
NoForm == [email |-> None, password |-> None, submitted |-> TRUE]

\* identities a caller may put in the query string of embed-config
RequestArgs == {EmailY, EmailH}

\* an upstream that keeps no count
MeterOff == [on |-> FALSE]

\* the upstream's count after n more calls reached it, ok more requests were
\* answered 200 and the requests answered 500 had issued failed calls
Metered(n, ok, failed) ==
  IF meter.on
    THEN [meter EXCEPT !.calls = @ + n, !.ok = @ + ok, !.failed_calls = @ + failed]
    ELSE meter

\* the response of a finished request reaches client c
Deliver(c, op, sess, data, after, out, calls, replies) ==
  /\ resp' = [client |-> c, op |-> op, sess |-> sess, data |-> data, after |-> after,
              status |-> out.status, body |-> out.body, calls |-> calls,
              replies |-> replies]
  /\ jar' = IF op = "replay-current-user" THEN jar
            ELSE [jar EXCEPT ![c] = save_session(jar[c], out)]
  /\ hist' = IF op = "login" /\ out.status = 200
               THEN [hist EXCEPT ![c] = [op |-> "login"]]
             ELSE IF op = "logout"
               THEN [hist EXCEPT ![c] = [op |-> "logout", old |-> sess]]
             ELSE hist

Login(c, data) ==
  /\ Deliver(c, "login", jar[c], data, hist[c].op, login(jar[c], data), <<>>, <<>>)
  /\ UNCHANGED <<env, req, form, meter>>

\* the connection UI submits the form
SubmitForm(c) ==
  /\ form # NoForm
  /\ Deliver(c, "login", jar[c], form, hist[c].op, login(jar[c], form), <<>>, <<>>)
  /\ form' = NoForm
  /\ UNCHANGED <<env, req, meter>>

Logout(c) ==
  /\ Deliver(c, "logout", jar[c], None, hist[c].op, logout(jar[c]), <<>>, <<>>)
  /\ UNCHANGED <<env, req, form, meter>>

CurrentUser(c) ==
  /\ Deliver(c, "current-user", jar[c], None, hist[c].op, get_current_user(jar[c]), <<>>, <<>>)
  /\ UNCHANGED <<env, req, form, meter>>

\* after a logout, the client presents the cookie it held before the logout
ReplayCurrentUser(c) ==
  /\ hist[c].op = "logout"
  /\ HasUser(hist[c].old)
  /\ Deliver(c, "replay-current-user", hist[c].old, None, hist[c].op,
             get_current_user(hist[c].old), <<>>, <<>>)
  /\ UNCHANGED <<env, req, form, meter>>

\* embed-config that answers from the token minted for the last response
EmbedConfigCached(c, request_args) ==
  /\ req[c].pc = "idle"
  /\ meter.on => meter.started < MaxRequests
  /\ LET out == get_embed_config(jar[c], request_args)
         cached == resp.op = "embed-config" /\ resp.status = 200 /\ resp.sess = jar[c]
     IN IF out = Pending /\ ~cached
          THEN /\ req' = [req EXCEPT ![c] =
                           [pc |-> "oidc", sess |-> jar[c],
                            user |-> embed_user(jar[c], request_args),
                            calls |-> <<oidc_call>>, replies |-> <<>>, silent |-> FALSE]]
               /\ meter' = IF meter.on
                             THEN [meter EXCEPT !.started = @ + 1, !.calls = @ + 1]
                             ELSE meter
               /\ UNCHANGED <<jar, hist, resp>>
          ELSE IF out = Pending
            THEN /\ Deliver(c, "embed-config", jar[c], request_args, hist[c].op,
                            Outcome(200, resp.body, jar[c], FALSE), <<>>, <<>>)
                 /\ meter' = Metered(0, 1, 0)
                 /\ UNCHANGED req
            ELSE /\ Deliver(c, "embed-config", jar[c], request_args, hist[c].op, out, <<>>, <<>>)
                 /\ UNCHANGED <<req, meter>>
  /\ UNCHANGED <<env, form>>

EmbedConfig(c, request_args) ==
  /\ req[c].pc = "idle"
  /\ meter.on => meter.started < MaxRequests
  /\ LET out == get_embed_config(jar[c], request_args)
     IN IF out = Pending
          THEN /\ req' = [req EXCEPT ![c] =
                           [pc |-> "oidc", sess |-> jar[c],
                            user |-> embed_user(jar[c], request_args),
                            calls |-> <<oidc_call>>, replies |-> <<>>, silent |-> FALSE]]
               /\ meter' = IF meter.on
                             THEN [meter EXCEPT !.started = @ + 1, !.calls = @ + 1]
                             ELSE meter
               /\ UNCHANGED <<jar, hist, resp>>
          ELSE /\ Deliver(c, "embed-config", jar[c], request_args, hist[c].op, out, <<>>, <<>>)
               /\ UNCHANGED <<req, meter>>
  /\ UNCHANGED <<env, form>>

\* the upstream accepts the call the request of c waits on and never answers it;
\* requests.post and requests.get are called without a timeout
UpstreamSilent(c) ==
  /\ req[c].pc # "idle"
  /\ ~req[c].silent
  /\ req' = [req EXCEPT ![c].silent = TRUE]
  /\ UNCHANGED <<env, jar, hist, resp, form, meter>>

\* the waiting request of c fails on reply r with message msg
Fail(c, r, msg) ==
  /\ Deliver(c, "embed-config", req[c].sess, None, "login",
             embed_failure(req[c].sess, msg), req[c].calls, Append(req[c].replies, r))
  /\ req' = [req EXCEPT ![c] = Idle]
  /\ meter' = Metered(0, 0, Len(req[c].calls))

\* step 1 issued again when its reply is an error
OidcReplyRetries(c, r) ==
  /\ req[c].pc = "oidc"
  /\ ~req[c].silent
  /\ IF oidc_error(r) # NoError
       THEN /\ req' = [req EXCEPT ![c].calls = Append(@, oidc_call),
                                  ![c].replies = Append(@, r)]
            /\ meter' = Metered(1, 0, 0)
            /\ UNCHANGED <<jar, hist, resp>>
       ELSE /\ req' = [req EXCEPT ![c].pc = "tokeninfo",
                                  ![c].calls = Append(@, tokeninfo_call(req[c].user, r.json.access_token)),
                                  ![c].replies = Append(@, r)]
            /\ meter' = Metered(1, 0, 0)
            /\ UNCHANGED <<jar, hist, resp>>
  /\ UNCHANGED <<env, form>>

OidcReply(c, r) ==
  /\ req[c].pc = "oidc"
  /\ ~req[c].silent
  /\ IF oidc_error(r) # NoError
       THEN Fail(c, r, oidc_error(r))
       ELSE /\ req' = [req EXCEPT ![c].pc = "tokeninfo",
                                  ![c].calls = Append(@, tokeninfo_call(req[c].user, r.json.access_token)),
                                  ![c].replies = Append(@, r)]
            /\ meter' = Metered(1, 0, 0)
            /\ UNCHANGED <<jar, hist, resp>>
  /\ UNCHANGED <<env, form>>

TokeninfoReply(c, r) ==
  /\ req[c].pc = "tokeninfo"
  /\ ~req[c].silent
  /\ IF tokeninfo_error(r) # NoError
       THEN Fail(c, r, tokeninfo_error(r))
       ELSE /\ req' = [req EXCEPT ![c].pc = "scoped",
                                  ![c].calls = Append(@, scoped_call(r.json)),
                                  ![c].replies = Append(@, r)]
            /\ meter' = Metered(1, 0, 0)
            /\ UNCHANGED <<jar, hist, resp>>
  /\ UNCHANGED <<env, form>>

\* the response carrying the token of step 1 in the place of the scoped one
ScopedReplyServiceToken(c, r) ==
  /\ req[c].pc = "scoped"
  /\ ~req[c].silent
  /\ IF scoped_error(r) # NoError
       THEN Fail(c, r, scoped_error(r))
       ELSE /\ Deliver(c, "embed-config", req[c].sess, None, "login",
                       embed_success(req[c].sess, req[c].user,
                                     minted_token([r.json EXCEPT !.access_token =
                                                     req[c].replies[1].json.access_token])),
                       req[c].calls, Append(req[c].replies, r))
            /\ req' = [req EXCEPT ![c] = Idle]
            /\ meter' = Metered(0, 1, 0)
  /\ UNCHANGED <<env, form>>

ScopedReply(c, r) ==
  /\ req[c].pc = "scoped"
  /\ ~req[c].silent
  /\ IF scoped_error(r) # NoError
       THEN Fail(c, r, scoped_error(r))
       ELSE /\ Deliver(c, "embed-config", req[c].sess, None, "login",
                       embed_success(req[c].sess, req[c].user, minted_token(r.json)),
                       req[c].calls, Append(req[c].replies, r))
            /\ req' = [req EXCEPT ![c] = Idle]
            /\ meter' = Metered(0, 1, 0)
  /\ UNCHANGED <<env, form>>

Init ==
  /\ env \in EnvChoices
  /\ form = NoForm
  /\ meter = MeterOff
  /\ jar = [c \in Clients |-> EmptySession]
  /\ hist = [c \in Clients |-> [op |-> "init"]]
  /\ req = [c \in Clients |-> Idle]
  /\ resp = [client |-> "none", op |-> "none", sess |-> EmptySession, data |-> None,
             after |-> "init", status |-> 0, body |-> <<>>, calls |-> <<>>,
             replies |-> <<>>]

Next ==
  \E c \in Clients :
    \/ \E data \in LoginInputs : Login(c, data)
    \/ Logout(c)
    \/ CurrentUser(c)
    \/ ReplayCurrentUser(c)
    \/ \E a \in RequestArgs : EmbedConfig(c, a)
    \/ \E r \in OidcReplies : OidcReply(c, r)
    \/ \E r \in TokeninfoReplies : TokeninfoReply(c, r)
    \/ \E r \in ScopedReplies : ScopedReply(c, r)

Spec == Init /\ [][Next]_vars

(* login alone, over every string the form may hold *)

InitLogin ==
  /\ env = FullEnv
  /\ form \in FormInputs
  /\ meter = MeterOff
  /\ jar = [c \in Clients |-> EmptySession]
  /\ hist = [c \in Clients |-> [op |-> "init"]]
  /\ req = [c \in Clients |-> Idle]
  /\ resp = [client |-> "none", op |-> "none", sess |-> EmptySession, data |-> None,
             after |-> "init", status |-> 0, body |-> <<>>, calls |-> <<>>,
             replies |-> <<>>]

NextLogin ==
  \E c \in Clients :
    \/ SubmitForm(c)
    \/ /\ form = NoForm
       /\ CurrentUser(c)

SpecLogin == InitLogin /\ [][NextLogin]_vars

(* token minting against an upstream that counts the calls it receives *)

InitMint ==
  /\ env = FullEnv
  /\ form = NoForm
  /\ meter = [on |-> TRUE, started |-> 0, calls |-> 0, ok |-> 0, failed_calls |-> 0]
  /\ jar = [c \in Clients |-> EmptySession]
  /\ hist = [c \in Clients |-> [op |-> "init"]]
  /\ req = [c \in Clients |-> Idle]
  /\ resp = [client |-> "none", op |-> "none", sess |-> EmptySession, data |-> None,
             after |-> "init", status |-> 0, body |-> <<>>, calls |-> <<>>,
             replies |-> <<>>]

NextMint ==
  \E c \in Clients :
    \/ \E e \in {EmailY, EmailH} : Login(c, [email |-> e, password |-> <<"r", "1">>])
    \/ \E a \in RequestArgs : EmbedConfig(c, a)
    \/ \E r \in OidcReplies : OidcReply(c, r)
    \/ \E r \in TokeninfoReplies : TokeninfoReply(c, r)
    \/ \E r \in ScopedReplies : ScopedReply(c, r)

SpecMint == InitMint /\ [][NextMint]_vars

(* token minting against an upstream that may stay silent; an upstream that is
   not silent answers, and the handler then runs on *)

InitLive ==
  /\ env = FullEnv
  /\ form = NoForm
  /\ meter = MeterOff
  /\ jar = [c \in Clients |-> EmptySession]
  /\ hist = [c \in Clients |-> [op |-> "init"]]
  /\ req = [c \in Clients |-> Idle]
  /\ resp = [client |-> "none", op |-> "none", sess |-> EmptySession, data |-> None,
             after |-> "init", status |-> 0, body |-> <<>>, calls |-> <<>>,
             replies |-> <<>>]

\* the upstream answers the call the request of c waits on
UpstreamReplies(c) ==
  \/ \E r \in OidcReplies : OidcReply(c, r)
  \/ \E r \in TokeninfoReplies : TokeninfoReply(c, r)
  \/ \E r \in ScopedReplies : ScopedReply(c, r)

NextLive ==
  \E c \in Clients :
    \/ \E e \in {EmailY, EmailH} : Login(c, [email |-> e, password |-> <<"r", "1">>])
    \/ \E a \in RequestArgs : EmbedConfig(c, a)
    \/ UpstreamSilent(c)
    \/ UpstreamReplies(c)

SpecLive ==
  InitLive /\ [][NextLive]_vars /\ \A c \in Clients : WF_vars(UpstreamReplies(c))

(* a client that still holds a cookie signed with the same secret key by an
   earlier deployment, for a user who has since left ALLOWED_USERS *)

StaleSession == [user_id |-> "user_former", username |-> <<"x", "@", "d">>]

InitStale ==
  /\ env = FullEnv
  /\ form = NoForm
  /\ meter = MeterOff
  /\ jar = [c \in Clients |-> IF c = "c1" THEN StaleSession ELSE EmptySession]
  /\ hist = [c \in Clients |-> [op |-> "init"]]
  /\ req = [c \in Clients |-> Idle]
  /\ resp = [client |-> "none", op |-> "none", sess |-> EmptySession, data |-> None,
             after |-> "init", status |-> 0, body |-> <<>>, calls |-> <<>>,
             replies |-> <<>>]

SpecStale == InitStale /\ [][Next]_vars

(* ---------------- properties ---------------- *)

ProtectedOps == {"current-user", "embed-config"}

\* the requests of embed-config that have issued the tokeninfo call: those that
\* wait for the upstream and the one answered last
TokeninfoIssued ==
  {[sess |-> req[c].sess, calls |-> req[c].calls] :
     c \in {d \in Clients : req[d].pc \in {"tokeninfo", "scoped"}}}
  \cup (IF resp.op = "embed-config" /\ Len(resp.calls) >= 2
          THEN {[sess |-> resp.sess, calls |-> resp.calls]} ELSE {})

\* C1: a current-user or embed-config request whose session holds no user_id is
\* answered 401 by the gate itself ('Authentication required', not a body of the
\* wrapped handler), has issued no upstream call, leaves the client's session as
\* it was, and never becomes a request that waits for the upstream.
C1_GateRejects ==
  /\ (resp.op \in ProtectedOps /\ ~HasUser(resp.sess)) =>
        /\ resp.status = 401
        /\ resp.body = [error |-> "Authentication required"]
        /\ resp.calls = <<>>
        /\ jar[resp.client] = resp.sess
  /\ \A c \in Clients : req[c].pc # "idle" => HasUser(req[c].sess)

C1_Witness ==
  /\ resp.op = "embed-config"
  /\ ~HasUser(resp.sess)
  /\ env = FullEnv

\* C2: in every embed-config request that has issued the tokeninfo call, the
\* parameters external_viewer_id and external_value are equal, and both are the
\* URL-quoted username of the session the request presented, which is a key of
\* the directory in trimmed lower-case form; a login typed with other casing and
\* padding yields the same parameters as the normalized e-mail.
C2_TokenSubjectIsSessionEmail ==
  /\ \A q \in TokeninfoIssued :
        /\ q.calls[2].step = "tokeninfo"
        /\ q.calls[2].external_viewer_id = q.calls[2].external_value
        /\ q.calls[2].external_value = quote(q.sess.username)
        /\ q.sess.username \in DOMAIN ALLOWED_USERS
        /\ q.sess.username = lower(strip(q.sess.username))
  /\ (/\ resp.op = "login"
      /\ resp.status = 200
      /\ resp.after = "init"
      /\ req[resp.client].pc \in {"tokeninfo", "scoped"}) =>
        req[resp.client].calls[2].external_value = quote(lower(strip(resp.data.email)))

\* the first login of a client was typed ' Y@D', and its embed-config request
\* has issued the tokeninfo call
C2_Witness ==
  /\ resp.op = "login"
  /\ resp.status = 200
  /\ resp.after = "init"
  /\ resp.data.email = <<" ", "Y", "@", "D">>
  /\ req[resp.client].pc = "tokeninfo"

\* C3: requests of two sessions bound to different users, in flight together,
\* carry different e-mails, each its own session's; an answered embed-config
\* returns the user_context of the session it presented, minted with that
\* session's e-mail, and never the e-mail another client's session is bound to.
C3_SessionsIsolated ==
  /\ \A c, d \in Clients :
        (/\ c # d
         /\ req[c].pc \in {"tokeninfo", "scoped"}
         /\ req[d].pc \in {"tokeninfo", "scoped"}
         /\ req[c].sess.username # req[d].sess.username) =>
           /\ req[c].calls[2].external_value # req[d].calls[2].external_value
           /\ req[c].calls[2].external_viewer_id = quote(req[c].sess.username)
           /\ req[c].user.email = req[c].sess.username
  /\ (resp.op = "embed-config" /\ resp.status = 200) =>
        /\ resp.body.user_context = _user_for_response(ALLOWED_USERS[resp.sess.username])
        /\ resp.calls[2].external_viewer_id = quote(resp.sess.username)
        /\ \A d \in Clients \ {resp.client} :
              (HasUser(jar[d]) /\ jar[d].username # resp.sess.username) =>
                 resp.body.user_context.email # jar[d].username

\* c1, bound to Youssef, is answered while the request of c2, bound to Hanane,
\* waits for its scoped exchange
C3_Witness ==
  /\ resp.op = "embed-config"
  /\ resp.status = 200
  /\ resp.client = "c1"
  /\ resp.sess.username = EmailY
  /\ req["c2"].pc = "scoped"
  /\ req["c2"].sess.username = EmailH
  /\ HasUser(jar["c2"])

\* C4: a current-user or embed-config request made on a session whose last
\* completed login or logout is a logout is answered 401 with no upstream call;
\* such a session holds no user until a login succeeds on it.
C4_AfterLogoutUnauthorized ==
  /\ \A c \in Clients : hist[c].op = "logout" => ~HasUser(jar[c])
  /\ (resp.op \in ProtectedOps /\ resp.after = "logout") =>
        /\ resp.status = 401
        /\ resp.calls = <<>>

\* embed-config right after the logout of a session that was bound to a user
C4_Witness ==
  /\ resp.op = "embed-config"
  /\ resp.after = "logout"
  /\ HasUser(hist[resp.client].old)
  /\ env = FullEnv

NormalEmail(data) == lower(strip(OrEmpty(data.email)))

\* C6: a login whose e-mail is a directory key once trimmed and lower-cased, with
\* that user's password, is answered 200 with success and the user's record
\* without the password, and leaves the client's session bound to the user's id
\* and normalized e-mail.
C6_LoginSucceeds ==
  (/\ resp.op = "login"
   /\ NormalEmail(resp.data) \in DOMAIN ALLOWED_USERS
   /\ resp.data.password = ALLOWED_USERS[NormalEmail(resp.data)].password) =>
     LET user == ALLOWED_USERS[NormalEmail(resp.data)]
     IN /\ resp.status = 200
        /\ resp.body.success
        /\ "password" \notin DOMAIN resp.body.user
        /\ resp.body.user = [id |-> user.id, name |-> user.name, email |-> user.email,
                             department |-> user.department]
        /\ jar[resp.client] = [user_id |-> user.id, username |-> user.email]

\* the login was typed ' Y@d'
C6_Witness ==
  /\ resp.op = "login"
  /\ resp.data.email = <<" ", "Y", "@", "d">>
  /\ resp.data.password = <<"r", "1">>
  /\ resp.status = 200

\* C7: a login whose e-mail is not in the directory and a login whose e-mail is
\* in it but whose password differs get one and the same answer: 401 with the
\* body {'error': 'Invalid email or password'}.
C7_LoginFailuresAlike ==
  (/\ resp.op = "login"
   /\ \/ NormalEmail(resp.data) \notin DOMAIN ALLOWED_USERS
      \/ strip(OrEmpty(resp.data.password)) # ALLOWED_USERS[NormalEmail(resp.data)].password) =>
     /\ resp.status = 401
     /\ resp.body = [error |-> "Invalid email or password"]

\* a known e-mail with a password of the wrong case
C7_Witness ==
  /\ resp.op = "login"
  /\ NormalEmail(resp.data) = EmailH
  /\ resp.data.password = <<"R", "1">>
  /\ resp.status = 401

\* C8: when one of the four required configuration values is empty, no request
\* waits for the upstream, and an embed-config request of a session with a user is
\* answered 500 with the missing-config message, having issued no upstream call.
C8_MissingConfigFailsFast ==
  (\E key \in DOMAIN Required : _env(key, Required[key]) = <<>>) =>
     /\ \A c \in Clients : req[c].pc = "idle"
     /\ (resp.op = "embed-config" /\ HasUser(resp.sess)) =>
           /\ resp.status = 500
           /\ resp.body = [error |-> MissingConfig]
           /\ resp.calls = <<>>

\* the dashboard id is set to '/', which _env strips to ''
C8_Witness ==
  /\ resp.op = "embed-config"
  /\ HasUser(resp.sess)
  /\ env = BrokenEnv("DASHBOARD_ID", "slash")

StepNames == <<"oidc", "tokeninfo", "scoped">>
StepLabels == <<"OIDC token failed: ", "Token info failed: ", "Scoped token failed: ">>

\* C9: when the reply to step k of an embed-config request has a status other
\* than 200, the request is answered 500 with the message of step k (the three
\* messages differ) carrying that status and text, and the calls it issued are
\* exactly steps 1..k.
C9_StepFailureKind ==
  /\ \A i, j \in 1..3 : i # j => StepLabels[i] # StepLabels[j]
  /\ (/\ resp.op = "embed-config"
      /\ resp.replies # <<>>
      /\ "status" \in DOMAIN resp.replies[Len(resp.replies)]
      /\ resp.replies[Len(resp.replies)].status # 200) =>
        LET k == Len(resp.replies)
            last == resp.replies[k]
        IN /\ resp.status = 500
           /\ resp.body = [error |-> <<StepLabels[k], last.status, " - ", last.text>>]
           /\ Len(resp.calls) = k
           /\ \A i \in 1..k : resp.calls[i].step = StepNames[i]

\* tokeninfo answered 204
C9_Witness ==
  /\ resp.op = "embed-config"
  /\ Len(resp.replies) = 2
  /\ "status" \in DOMAIN resp.replies[2]
  /\ resp.replies[2].status = 204

\* the reply r ends mint_databricks_token with an exception
ReplyFails(r) == "raised" \in DOMAIN r \/ r.status # 200

\* C10: the calls of an embed-config request are steps 1..n in order, each once;
\* every step but the last issued was answered 200 before the next was issued; a
\* request that waits has one call unanswered; an answered request whose last
\* reply failed is answered 500, and one answered 200 made all three calls.
C10_SequentialNoRetry ==
  /\ \A c \in Clients : req[c].pc # "idle" =>
        LET n == Len(req[c].calls)
        IN /\ n \in 1..3
           /\ req[c].pc = StepNames[n]
           /\ \A i \in 1..n : req[c].calls[i].step = StepNames[i]
           /\ Len(req[c].replies) = n - 1
           /\ \A i \in 1..(n - 1) : ~ReplyFails(req[c].replies[i])
  /\ resp.op = "embed-config" =>
        LET n == Len(resp.calls)
        IN /\ n \in 0..3
           /\ \A i \in 1..n : resp.calls[i].step = StepNames[i]
           /\ Len(resp.replies) = n
           /\ \A i \in 1..(n - 1) : ~ReplyFails(resp.replies[i])
           /\ (n > 0 /\ ReplyFails(resp.replies[n])) => resp.status = 500
           /\ resp.status = 200 => (n = 3 /\ ~ReplyFails(resp.replies[3]))

\* the scoped exchange failed after two steps answered 200
C10_Witness ==
  /\ resp.op = "embed-config"
  /\ resp.status = 500
  /\ Len(resp.calls) = 3
  /\ ReplyFails(resp.replies[3])

\* the calls the waiting request of c has issued
InFlightCalls(c) == IF req[c].pc = "idle" THEN 0 ELSE Len(req[c].calls)

RECURSIVE SumInFlight(_)
SumInFlight(S) ==
  IF S = {} THEN 0
  ELSE LET c == CHOOSE x \in S : TRUE IN InFlightCalls(c) + SumInFlight(S \ {c})

\* C11: the upstream has received exactly three calls for each embed-config
\* request answered 200, plus the calls of the requests answered 500 and of those
\* still waiting; every request that reaches the upstream starts at the
\* service-token call, however many requests succeeded before, and a request
\* answered 200 made its own three calls.
C11_FreshExchangePerRequest ==
  /\ meter.on =>
        meter.calls = 3 * meter.ok + meter.failed_calls + SumInFlight(Clients)
  /\ \A c \in Clients : req[c].pc # "idle" => req[c].calls[1] = oidc_call
  /\ (resp.op = "embed-config" /\ resp.status = 200) =>
        /\ Len(resp.calls) = 3
        /\ resp.calls[1] = oidc_call

\* after two requests answered 200, a third waits for its service token
C11_Witness ==
  /\ meter.on
  /\ meter.ok = 2
  /\ meter.calls = 7
  /\ \E c \in Clients : req[c].pc = "oidc"

\* C12: every logout, with or without a session, is answered 200 with
\* {'success': True} and leaves the client with the empty session; a logout of
\* the session a logout left gives that same empty session again.
C12_LogoutIdempotent ==
  resp.op = "logout" =>
    /\ resp.status = 200
    /\ resp.body = [success |-> TRUE]
    /\ DOMAIN jar[resp.client] = {}
    /\ DOMAIN logout(jar[resp.client]).session = {}
    /\ logout(logout(resp.sess).session).session = logout(resp.sess).session

\* a second logout in a row, on a session that holds nothing
C12_Witness ==
  /\ resp.op = "logout"
  /\ resp.after = "logout"
  /\ ~HasUser(resp.sess)

\* C13: a current-user or embed-config request on a session that holds a user_id
\* but whose username is not a key of the directory is answered 401 'User not
\* found' with no upstream call, and leaves the client with the empty session,
\* on which current-user and embed-config are answered 401; no request of such a
\* session ever waits for the upstream.
C13_UnknownUserInvalidated ==
  /\ (/\ resp.op \in ProtectedOps
      /\ HasUser(resp.sess)
      /\ session_get(resp.sess, "username") \notin DOMAIN ALLOWED_USERS) =>
        /\ resp.status = 401
        /\ resp.body = [error |-> "User not found"]
        /\ resp.calls = <<>>
        /\ DOMAIN jar[resp.client] = {}
        /\ get_current_user(jar[resp.client]).status = 401
        /\ \A a \in RequestArgs : get_embed_config(jar[resp.client], a).status = 401
  /\ \A c \in Clients :
        req[c].pc # "idle" => session_get(req[c].sess, "username") \in DOMAIN ALLOWED_USERS

\* embed-config with the cookie of the former user
C13_Witness ==
  /\ resp.op = "embed-config"
  /\ resp.sess = StaleSession

\* C14: every embed-config request that waits for the upstream is eventually
\* answered, also when the upstream never answers one of its calls.
C14_EveryRequestCompletes ==
  \A c \in Clients : (req[c].pc # "idle") ~> (req[c].pc = "idle")

\* the exception the reply r raises at step k, NoError if none
StepError(k, r) ==
  CASE k = 1 -> oidc_error(r)
    [] k = 2 -> tokeninfo_error(r)
    [] OTHER -> scoped_error(r)

\* the answered embed-config request passed the gate and the directory lookup,
\* and minting failed: on the configuration, or on the reply to its last call
MintFailed ==
  /\ resp.op = "embed-config"
  /\ HasUser(resp.sess)
  /\ session_get(resp.sess, "username") \in DOMAIN ALLOWED_USERS
  /\ \/ resp.replies = <<>> /\ \E key \in DOMAIN Required : _env(key, Required[key]) = <<>>
     \/ resp.replies # <<>> /\
          StepError(Len(resp.replies), resp.replies[Len(resp.replies)]) # NoError

\* C15: when minting fails, on the configuration or on any reply, the response
\* is 500 and its body holds the error message and nothing else: no embed_token,
\* no token_expires_in, no other field of the embed config.
C15_FailureIsTerminal ==
  MintFailed =>
    /\ resp.status = 500
    /\ DOMAIN resp.body = {"error"}
    /\ resp.body.error =
         IF resp.replies = <<>> THEN MissingConfig
         ELSE StepError(Len(resp.replies), resp.replies[Len(resp.replies)])

\* the scoped exchange answered 200 without an access_token
C15_Witness ==
  /\ MintFailed
  /\ Len(resp.replies) = 3
  /\ ~ReplyFails(resp.replies[3])

\* C16: a response body holds an embed_token only if it answers an embed-config
\* request whose three calls were each answered 200 within that request; the
\* token is the access_token of the reply to the scoped exchange, with its
\* expires_in or 3600, and is not the access_token the service-token call got.
C16_OnlyScopedTokenReturned ==
  "embed_token" \in DOMAIN resp.body =>
    /\ resp.op = "embed-config"
    /\ resp.status = 200
    /\ Len(resp.calls) = 3
    /\ Len(resp.replies) = 3
    /\ \A i \in 1..3 : ~ReplyFails(resp.replies[i])
    /\ resp.body.embed_token = resp.replies[3].json.access_token
    /\ resp.body.embed_token # resp.replies[1].json.access_token
    /\ resp.body.token_expires_in =
         IF "expires_in" \in DOMAIN resp.replies[3].json
           THEN resp.replies[3].json.expires_in ELSE 3600

\* the scoped exchange gave tokB without expires_in
C16_Witness ==
  /\ "embed_token" \in DOMAIN resp.body
  /\ resp.body.embed_token = "tokB"
  /\ resp.body.token_expires_in = 3600

\* a session that holds nothing, or a user_id and a username that name one
\* directory entry by its normalized key
Consistent(sess) ==
  \/ DOMAIN sess = {}
  \/ /\ DOMAIN sess = {"user_id", "username"}
     /\ sess.username \in DOMAIN ALLOWED_USERS
     /\ sess.username = lower(strip(sess.username))
     /\ sess.user_id = ALLOWED_USERS[sess.username].id

\* C17: every session the clients hold, every session a waiting request
\* presented and the session of the last request hold either no key, or user_id
\* and username together, the username a trimmed lower-case key of the directory
\* and the user_id the id of its entry.
C17_SessionConsistent ==
  /\ \A c \in Clients : Consistent(jar[c])
  /\ \A c \in Clients : req[c].pc # "idle" => Consistent(req[c].sess)
  /\ Consistent(resp.sess)

\* a login typed ' Y@D' on a session bound to Hanane, the other client logged out
C17_Witness ==
  /\ resp.op = "login"
  /\ resp.status = 200
  /\ resp.data.email = <<" ", "Y", "@", "D">>
  /\ HasUser(resp.sess)
  /\ resp.sess.username = EmailH
  /\ \E c \in Clients : hist[c].op = "logout"

\* the sessions a and b hold the same keys and values
SameSession(a, b) == DOMAIN a = DOMAIN b /\ \A k \in DOMAIN a : a[k] = b[k]

\* C18: after a login answered with a failure the client holds the session it
\* presented: none if it had none, and if it was bound to a user, still that
\* user's, on which current-user is answered 200 with that user and embed-config
\* mints for that user's e-mail.
C18_FailedLoginKeepsSession ==
  (resp.op = "login" /\ resp.status # 200) =>
    /\ SameSession(jar[resp.client], resp.sess)
    /\ ~HasUser(resp.sess) => DOMAIN jar[resp.client] = {}
    /\ HasUser(resp.sess) =>
          /\ get_current_user(jar[resp.client]).status = 200
          /\ get_current_user(jar[resp.client]).body =
                _user_for_response(ALLOWED_USERS[resp.sess.username])
          /\ \A args \in RequestArgs :
                user_email(embed_user(jar[resp.client], args)) =
                  ALLOWED_USERS[resp.sess.username].email

\* a wrong password for Youssef, typed on a session bound to Hanane
C18_Witness ==
  /\ resp.op = "login"
  /\ resp.status = 401
  /\ resp.data.email = EmailY
  /\ HasUser(resp.sess)
  /\ resp.sess.username = EmailH

\* C19: the step that answers an embed-config request with 500 changes no
\* client's session; if the client still holds the session the request
\* presented, current-user on it is answered 200 with the same user.
C19_MintFailureKeepsSession ==
  [][(resp'.op = "embed-config" /\ resp'.status = 500) =>
       /\ jar' = jar
       /\ hist' = hist
       /\ SameSession(jar[resp'.client], resp'.sess) =>
             /\ get_current_user(jar'[resp'.client]).status = 200
             /\ get_current_user(jar'[resp'.client]).body =
                   _user_for_response(ALLOWED_USERS[resp'.sess.username])]_vars

\* tokeninfo failed, and the client holds the session the request presented
C19_Witness ==
  /\ resp.op = "embed-config"
  /\ resp.status = 500
  /\ Len(resp.calls) = 2
  /\ HasUser(jar[resp.client])
  /\ SameSession(jar[resp.client], resp.sess)

====
